---- MODULE Spec2Model ----
(***************************************************************************)
(* simplelog: a control goroutine (control.run) that owns the service      *)
(* state bitmask and dispatches start/stop/initlog/newlog actions, a log   *)
(* service goroutine (logService.run) that owns the output handles, the    *)
(* completion waiters spawned by the control, the periodic flush goroutine *)
(* of the file logger, and the callers of the package API.                 *)
(*                                                                         *)
(* Unbuffered channel operations are modelled as rendezvous steps: a send  *)
(* and its matching receive are one step, enabled only when both sides are *)
(* at the operation.  checkState is a request/response pair on two         *)
(* unbuffered channels during which the control can serve nobody else; it  *)
(* is one step, enabled when the control is at its select.                 *)
(***************************************************************************)
EXTENDS Integers, Sequences, FiniteSets, TLC

\* ---------------------------------------------------------------- bounds
NumCallers == 2
MaxCalls == 3
MaxCallsSeq == 6
MaxStarts == 2
MaxCallsRun == 5
MaxCallsFill == 13

\* ------------------------------------------------------ program constants
\* log targets
stdout == 0
file == 1
multi == 2
\* log service actions
start == 0
stop == 1
initlog == 2
newlog == 3
\* log service states bitmask
stopped == 1
running == 2
\* the buffer size Startup stores in the logbuffer attribute
StartupBufferSize == 10
\* message catalog
m001 == "log file not initialized"
m002 == "log service was already started"
m003 == "log service is not running"
m004 == "log service has not been started"

Callers == 1..NumCallers
Paths == {"p1", "p2"}
Targets == {stdout, file, multi}
Nil == 0
\* the blank separator line of a log file
Blank == 0

VARIABLES
    totalState,   \* control.run: the service state bitmask
    ctl,          \* control.run: [pc, action, data], where the loop stands
    attribute,    \* logFactory.attribute: [logbuffer, logfilename]
    gen,          \* number of start actions handled = the current channels
    logData,      \* logData[g]: content of the g-th logData channel
    logCap,       \* logCap[g]: capacity of the g-th logData channel
    serviceStop,  \* serviceStop[g]: signals buffered in the g-th stop channel
    wr,           \* wr[w]: the w-th logService.run goroutine [pc, lg, data, half]
    waiters,      \* the control's completion waiters, counted by position
    io,           \* multiLog fields, the file system and stdout
    cl,           \* cl[c]: caller c [pc, op, arg, size, ch, res, pre, old]
    ncalls,       \* number of API calls made
    enq,          \* history: the messages enqueued [target, path, hd], in order
    boundPath,    \* history: path of the last returned InitLogFile/ChangeLogName
    lastLife      \* history: the last lifecycle call that returned normally

vars == <<totalState, ctl, attribute, gen, logData, logCap, serviceStop, wr, waiters,
          io, cl, ncalls, enq, boundPath, lastLife>>

Gens == 1..MaxStarts

\* ------------------------------------------------------------- bitmask
Bit(x, i) == (x \div i) % 2

\* x & y on the two state bits
BitAnd(x, y) == (Bit(x, 1) * Bit(y, 1)) + 2 * (Bit(x, 2) * Bit(y, 2))

\* x | y on the two state bits
BitOr(x, y) ==
    (IF Bit(x, 1) + Bit(y, 1) > 0 THEN 1 ELSE 0)
    + 2 * (IF Bit(x, 2) + Bit(y, 2) > 0 THEN 1 ELSE 0)

\* control.run, case state := <-c.checkServiceState
checkServiceState(total, state) == BitAnd(total, state) = state

\* the state attribute assigned instead of OR'd
setServiceStateAssign(total, singleState) == singleState

\* control.run, case singleState = <-c.setServiceState
setServiceState(total, singleState) ==
    IF singleState = stopped THEN singleState ELSE BitOr(total, singleState)

\* the reset on start left out
resetOnStartKept(total) == total

\* control.run, case start: reset state attribute
resetOnStart(total) == IF total = stopped THEN 0 ELSE total

\* ---------------------------------------------- multiLog and the files
\* io.handles[h] = [path, open, out] is the h-th file opened by os.OpenFile,
\* with the lines written through it; io.fileDesc is Nil or such an h;
\* io.fileWriter is the bufio.Writer
\* [h, buf, err] created by fileLog.instance on handle h, with h = Nil for the
\* nil pointer.

\* bufio.Writer.Flush up to its b.wr.Write(b.buf[0:b.n]): the buffered lines
\* reach the file of the writer's handle, or the writer keeps a sticky error
\* when that handle is closed
bufioFlushWrite(st) ==
    LET fw == st.fileWriter IN
    IF fw.err \/ fw.buf = <<>> THEN st
    ELSE IF st.handles[fw.h].open
    THEN [st EXCEPT !.files[st.handles[fw.h].path] = @ \o fw.buf,
                    !.handles[fw.h].out = @ \o fw.buf]
    ELSE [st EXCEPT !.fileWriter.err = TRUE]

\* bufio.Writer.Flush called by the goroutine that also writes: after the
\* write the buffer is empty (b.n = 0)
bufioFlush(st) ==
    LET a == bufioFlushWrite(st) IN
    IF a.fileWriter.err THEN a ELSE [a EXCEPT !.fileWriter.buf = <<>>]

\* bufio.Writer.Write/WriteString: nothing is accepted after an error
bufioWrite(st, line) ==
    IF st.fileWriter.err THEN st
    ELSE [st EXCEPT !.fileWriter.buf = Append(@, line)]

\* stdoutLog.instance
stdoutInstance(st) == [st EXCEPT !.stdoutLogInstance = TRUE]

\* fileLog.instance
fileInstance(st) ==
    IF st.fileLogInstance THEN st
    ELSE IF st.fileDesc = Nil THEN [st EXCEPT !.panic = TRUE]
    ELSE bufioWrite([st EXCEPT !.fileWriter = [h |-> st.fileDesc, buf |-> <<>>, err |-> FALSE],
                               !.fileLogInstance = TRUE,
                               !.flusher = TRUE],
                    Blank)

\* log.Logger.Print on the stdout logger
stdoutPrint(st, data) == [st EXCEPT !.stdout = Append(@, data)]

\* log.Logger.Print on the file logger
filePrint(st, data) == IF st.panic THEN st ELSE bufioWrite(st, data)

\* logService.writeMessage; of case multi the first Print
writeMessage(st, logMsg) ==
    IF logMsg.target = stdout
    THEN stdoutPrint(stdoutInstance(st), logMsg.data)
    ELSE IF logMsg.target = file
    THEN filePrint(fileInstance(st), logMsg.data)
    ELSE IF logMsg.target = multi
    THEN stdoutPrint(stdoutInstance(st), logMsg.data)
    ELSE st

\* logService.writeMessage, case multi: the second Print
writeMessageFile(st, data) == filePrint(fileInstance(st), data)

\* the payload writeMessage has still to print to the file, 0 for none
halfOf(logMsg) == IF logMsg.target = multi THEN logMsg.data ELSE 0

\* setupLogFile going on after a failed open
setupLogFileNoPanic(st, logName, ok) ==
    IF ok
    THEN [st EXCEPT !.handles = Append(@, [path |-> logName, open |-> TRUE, out |-> <<>>]),
                    !.fileDesc = Len(st.handles) + 1]
    ELSE [st EXCEPT !.openErr = TRUE]

\* multiLog.setupLogFile; ok tells whether os.OpenFile succeeds
setupLogFile(st, logName, ok) ==
    IF ok
    THEN [st EXCEPT !.handles = Append(@, [path |-> logName, open |-> TRUE, out |-> <<>>]),
                    !.fileDesc = Len(st.handles) + 1]
    ELSE [st EXCEPT !.openErr = TRUE, !.panic = TRUE]

\* closeLogFile leaving the closed descriptor in s.fileDesc
closeLogFileKeepsDesc(st) ==
    IF st.fileDesc = Nil THEN st
    ELSE IF st.fileWriter.h = Nil THEN [st EXCEPT !.panic = TRUE]
    ELSE LET f == IF Len(st.fileWriter.buf) > 0 THEN bufioFlush(st) ELSE st IN
         IF ~f.handles[f.fileDesc].open THEN [f EXCEPT !.panic = TRUE]
         ELSE [f EXCEPT !.handles[f.fileDesc].open = FALSE]

\* multiLog.closeLogFile
closeLogFile(st) ==
    IF st.fileDesc = Nil THEN st
    ELSE IF st.fileWriter.h = Nil THEN [st EXCEPT !.panic = TRUE]
    ELSE LET f == IF Len(st.fileWriter.buf) > 0 THEN bufioFlush(st) ELSE st IN
         IF ~f.handles[f.fileDesc].open THEN [f EXCEPT !.panic = TRUE]
         ELSE [f EXCEPT !.handles[f.fileDesc].open = FALSE, !.fileDesc = Nil]

\* multiLog.changeLogFileName
changeLogFileName(st, newLogName, ok) ==
    LET a == closeLogFile(st) IN
    IF a.panic THEN a
    ELSE setupLogFile([a EXCEPT !.fileLogInstance = FALSE], newLogName, ok)

\* InitLogFile and ChangeLogName hand their request to the control, which
\* forwards it to the log service: c.service(initlog), c.service(newlog)
configAction(op) == IF op = "InitLogFile" THEN initlog ELSE newlog

\* the service action an API function requests
apiAction(op) ==
    IF op = "Startup" THEN start
    ELSE IF op = "Shutdown" THEN stop
    ELSE configAction(op)

\* ------------------------------------------------------------- control
CtlAt(p) == ctl.pc = p /\ ~io.panic

CtlIdle == [pc |-> "select", action |-> start, data |-> ""]

\* control.run, case start: the channels are allocated, the state attribute
\* is reset, the log service and the waiter goroutine are started
ctlStart ==
    /\ gen' = gen + 1
    /\ logData' = [logData EXCEPT ![gen + 1] = <<>>]
    /\ logCap' = [logCap EXCEPT ![gen + 1] = attribute.logbuffer]
    /\ serviceStop' = [serviceStop EXCEPT ![gen + 1] = 0]
    /\ totalState' = resetOnStart(totalState)
    /\ wr' = [wr EXCEPT ![gen + 1] = [pc |-> "setRunning", lg |-> 0, data |-> "",
                                      half |-> 0]]
    /\ waiters' = [waiters EXCEPT !.startPoll = @ + 1]
    /\ ctl' = CtlIdle

\* control.run, cases stop, initlog and newlog up to their channel send
ctlForward(action) ==
    /\ ctl' = [pc |-> IF action = stop THEN "sendStop" ELSE "sendConfig",
               action |-> action,
               data |-> IF action = stop THEN "" ELSE attribute.logfilename]
    /\ UNCHANGED <<gen, logData, logCap, serviceStop, totalState, wr, waiters>>

\* control.service, c.execServiceAction <- action, received by control.run;
\* Startup's bufferSize is dead from here on
Service(c) ==
    /\ cl[c].pc = "sendAction"
    /\ CtlAt("select")
    /\ IF apiAction(cl[c].op) = start THEN ctlStart
       ELSE ctlForward(apiAction(cl[c].op))
    /\ cl' = [cl EXCEPT ![c].pc = "awaitResp", ![c].size = 0]
    /\ UNCHANGED <<attribute, io, ncalls, enq, boundPath, lastLife>>

\* control.run, case stop: s.serviceStop <- signal{} (buffered, capacity 1),
\* then the waiter goroutine is started
CtlSendStop ==
    /\ CtlAt("sendStop")
    /\ serviceStop[gen] = 0
    /\ serviceStop' = [serviceStop EXCEPT ![gen] = 1]
    /\ waiters' = [waiters EXCEPT !.stopPoll = @ + 1]
    /\ ctl' = CtlIdle
    /\ UNCHANGED <<logCap, totalState, attribute, gen, logData, wr, io, cl, ncalls,
                   enq, boundPath, lastLife>>

\* the start waiter answering without waiting for the running state
StartWaiterNoWait ==
    /\ waiters.startPoll > 0
    /\ CtlAt("select")
    /\ waiters' = [waiters EXCEPT !.startPoll = @ - 1, !.respond = @ + 1]
    /\ UNCHANGED <<logCap, totalState, ctl, attribute, gen, logData, serviceStop, wr,
                   io, cl, ncalls, enq, boundPath, lastLife>>

\* the start waiter: c.checkState(running) answered true
StartWaiter ==
    /\ waiters.startPoll > 0
    /\ CtlAt("select")
    /\ checkServiceState(totalState, running)
    /\ waiters' = [waiters EXCEPT !.startPoll = @ - 1, !.respond = @ + 1]
    /\ UNCHANGED <<logCap, totalState, ctl, attribute, gen, logData, serviceStop, wr,
                   io, cl, ncalls, enq, boundPath, lastLife>>

\* the stop waiter: c.checkState(stopped) answered true
StopWaiter ==
    /\ waiters.stopPoll > 0
    /\ CtlAt("select")
    /\ checkServiceState(totalState, stopped)
    /\ waiters' = [waiters EXCEPT !.stopPoll = @ - 1, !.stopClose = @ + 1]
    /\ UNCHANGED <<logCap, totalState, ctl, attribute, gen, logData, serviceStop, wr,
                   io, cl, ncalls, enq, boundPath, lastLife>>

\* the stop waiter: s.closeLogFile()
StopWaiterClose ==
    /\ waiters.stopClose > 0
    /\ ~io.panic
    /\ io' = closeLogFile(io)
    /\ waiters' = [waiters EXCEPT !.stopClose = @ - 1, !.respond = @ + 1]
    /\ UNCHANGED <<logCap, totalState, ctl, attribute, gen, logData, serviceStop, wr,
                   cl, ncalls, enq, boundPath, lastLife>>

\* --------------------------------------------------------- log service
WrAt(w, p) == wr[w].pc = p /\ wr[w].half = 0 /\ ~io.panic

\* the loop is back at its select: the channel fields are read again
backToSelect(w) == [pc |-> "select", lg |-> gen, data |-> "", half |-> 0]

\* logService.run: c.setState(running)
WrSetRunning(w) ==
    /\ WrAt(w, "setRunning")
    /\ CtlAt("select")
    /\ totalState' = setServiceState(totalState, running)
    /\ wr' = [wr EXCEPT ![w] = backToSelect(w)]
    /\ UNCHANGED <<logCap, ctl, attribute, gen, logData, serviceStop, waiters, io, cl,
                   ncalls, enq, boundPath, lastLife>>

\* logService.run, case <-s.serviceStop
WrRecvStop(w) ==
    /\ WrAt(w, "select")
    /\ serviceStop[wr[w].lg] = 1
    /\ serviceStop' = [serviceStop EXCEPT ![wr[w].lg] = 0]
    /\ wr' = [wr EXCEPT ![w].pc = "flushStop"]
    /\ UNCHANGED <<logCap, totalState, ctl, attribute, gen, logData, waiters, io, cl,
                   ncalls, enq, boundPath, lastLife>>

\* logService.run, case logMsg = <-s.logData
WrRecvData(w) ==
    /\ WrAt(w, "select")
    /\ logData[wr[w].lg] # <<>>
    /\ io' = writeMessage(io, Head(logData[wr[w].lg]))
    /\ logData' = [logData EXCEPT ![wr[w].lg] = Tail(@)]
    /\ wr' = [wr EXCEPT ![w] = IF halfOf(Head(logData[wr[w].lg])) = 0
                                THEN backToSelect(w)
                                ELSE [@ EXCEPT !.half = halfOf(Head(logData[wr[w].lg]))]]
    /\ UNCHANGED <<logCap, totalState, ctl, attribute, gen, serviceStop, waiters, cl,
                   ncalls, enq, boundPath, lastLife>>

\* logService.run, case cfgMsg = <-s.serviceConfig, sent by control.run
WrRecvConfig(w) ==
    /\ WrAt(w, "select")
    /\ ctl.pc = "sendConfig"
    /\ wr[w].lg = gen
    /\ ctl' = CtlIdle
    /\ IF ctl.action = initlog
       THEN /\ \E ok \in BOOLEAN : io' = setupLogFile(io, ctl.data, ok)
            /\ wr' = [wr EXCEPT ![w].pc = "ack"]
       ELSE /\ io' = io
            /\ wr' = [wr EXCEPT ![w].pc = "flushNew", ![w].data = ctl.data]
    /\ UNCHANGED <<logCap, totalState, attribute, gen, logData, serviceStop, waiters,
                   cl, ncalls, enq, boundPath, lastLife>>

\* logService.flush, one turn of its loop; at its end the stop case returns
\* and the newlog case changes the log file name
WrFlush(w) ==
    /\ wr[w].pc \in {"flushStop", "flushNew"}
    /\ wr[w].half = 0
    /\ ~io.panic
    /\ IF Len(logData[gen]) > 0
       THEN /\ io' = writeMessage(io, Head(logData[gen]))
            /\ logData' = [logData EXCEPT ![gen] = Tail(@)]
            /\ wr' = [wr EXCEPT ![w].half = halfOf(Head(logData[gen]))]
       ELSE /\ logData' = logData
            /\ IF wr[w].pc = "flushStop"
               THEN /\ io' = io
                    /\ wr' = [wr EXCEPT ![w].pc = "setStopped"]
               ELSE /\ \E ok \in BOOLEAN : io' = changeLogFileName(io, wr[w].data, ok)
                    /\ wr' = [wr EXCEPT ![w].pc = "ack"]
    /\ UNCHANGED <<logCap, totalState, ctl, attribute, gen, serviceStop, waiters, cl,
                   ncalls, enq, boundPath, lastLife>>

\* logService.writeMessage, case multi: the Print on the file logger, after
\* which run is back at its select or flush at its loop
WrMultiFile(w) ==
    /\ wr[w].half # 0
    /\ ~io.panic
    /\ io' = writeMessageFile(io, wr[w].half)
    /\ wr' = [wr EXCEPT ![w] = IF @.pc = "select" THEN backToSelect(w)
                                ELSE [@ EXCEPT !.half = 0]]
    /\ UNCHANGED <<logCap, totalState, ctl, attribute, gen, logData, serviceStop,
                   waiters, cl, ncalls, enq, boundPath, lastLife>>

\* logService.run: the deferred c.setState(stopped), then the goroutine ends
WrSetStopped(w) ==
    /\ WrAt(w, "setStopped")
    /\ CtlAt("select")
    /\ totalState' = setServiceState(totalState, stopped)
    /\ wr' = [wr EXCEPT ![w].pc = "exited"]
    /\ UNCHANGED <<logCap, ctl, attribute, gen, logData, serviceStop, waiters, io, cl,
                   ncalls, enq, boundPath, lastLife>>

\* fileLog.instance: the goroutine that flushes the file writer every 2 s.
\* It shares the bufio.Writer with the log service without synchronization:
\* its Flush has written the io.tick.n buffered lines of the writer on handle
\* io.tick.h and has not yet reset the buffer
TimerFlush ==
    /\ io.flusher
    /\ ~io.panic
    /\ io.tick.n = 0
    /\ Len(io.fileWriter.buf) > 0
    /\ ~io.fileWriter.err
    /\ LET a == bufioFlushWrite(io) IN
       io' = IF a.fileWriter.err THEN a
             ELSE [a EXCEPT !.tick = [n |-> Len(io.fileWriter.buf), h |-> io.fileWriter.h]]
    /\ UNCHANGED <<logCap, totalState, ctl, attribute, gen, logData, serviceStop, wr,
                   waiters, cl, ncalls, enq, boundPath, lastLife>>

\* the end of the timer's Flush.  When the log service has printed into the
\* buffer meanwhile, the race has two outcomes: b.n = 0 drops the new lines
\* ("reset"), or Flush sees n < b.n, keeps the new lines and leaves the
\* writer with the sticky error io.ErrShortWrite ("short")
TimerFlushEnd ==
    /\ io.tick.n > 0
    /\ ~io.panic
    /\ \E outcome \in {"reset", "short"} :
          io' = IF io.fileWriter.h # io.tick.h
                THEN [io EXCEPT !.tick = [n |-> 0, h |-> Nil]]
                ELSE IF outcome = "reset" \/ Len(io.fileWriter.buf) <= io.tick.n
                THEN [io EXCEPT !.tick = [n |-> 0, h |-> Nil], !.fileWriter.buf = <<>>]
                ELSE [io EXCEPT !.tick = [n |-> 0, h |-> Nil],
                                !.fileWriter.buf = SubSeq(@, io.tick.n + 1, Len(@)),
                                !.fileWriter.err = TRUE]
    /\ UNCHANGED <<logCap, totalState, ctl, attribute, gen, logData, serviceStop, wr,
                   waiters, cl, ncalls, enq, boundPath, lastLife>>

\* ------------------------------------------------------------- callers
Ops == {"Startup", "Shutdown", "InitLogFile", "ChangeLogName",
        "WriteToStdout", "WriteToFile", "WriteToMulti"}

\* Shutdown without its state check
apiGuardNoShutdownCheck(op, total) ==
    IF op = "Startup" THEN ~checkServiceState(total, running)
    ELSE op = "Shutdown" \/ checkServiceState(total, running)

\* the state check every API function starts with
apiGuard(op, total) ==
    IF op = "Startup" THEN ~checkServiceState(total, running)
    ELSE checkServiceState(total, running)

\* the message of the panic raised when the state check fails
apiPanic(op) ==
    IF op = "Startup" THEN m002 ELSE IF op = "Shutdown" THEN m003 ELSE m004

\* the log target of a write function
apiTarget(op) ==
    IF op = "WriteToStdout" THEN stdout
    ELSE IF op = "WriteToFile" THEN file
    ELSE multi

\* where a caller stands once the state check has passed
apiNext(op) ==
    IF op \in {"WriteToFile", "WriteToMulti"} THEN "checkFile"
    ELSE IF op = "WriteToStdout" THEN "sendData"
    ELSE "sendAction"

\* s.setAttribut, called by Startup (logbuffer) and by InitLogFile and
\* ChangeLogName (logfilename) before c.service
setAttribut(attr, op, arg) ==
    IF op = "Startup" THEN [attr EXCEPT !.logbuffer = StartupBufferSize]
    ELSE IF op \in {"InitLogFile", "ChangeLogName"} THEN [attr EXCEPT !.logfilename = arg]
    ELSE attr

\* start actions requested or handled so far
StartsPending ==
    gen + Cardinality({c \in Callers : cl[c].pc = "sendAction" /\ cl[c].op = "Startup"})

fileIds(q) == {i \in 1..Len(q) : q[i].target # stdout}

\* an API function is entered: c.checkState(running) is answered by the
\* control, and the function panics or goes on
Call(c, op, arg, bound) ==
    /\ cl[c].pc = "idle"
    /\ CtlAt("select")
    /\ ncalls < bound
    /\ op = "Startup" => StartsPending < MaxStarts
    /\ ncalls' = ncalls + 1
    /\ IF apiGuard(op, totalState)
       THEN /\ cl' = [cl EXCEPT ![c] = [pc |-> apiNext(op), op |-> op,
                                       arg |-> IF op = "Startup" THEN "" ELSE arg,
                                       size |-> IF op = "Startup" THEN arg ELSE 0,
                                       ch |-> 0,
                                       res |-> "", pre |-> fileIds(enq),
                                       old |-> boundPath]]
            /\ attribute' = setAttribut(attribute, op, arg)
       ELSE /\ cl' = [cl EXCEPT ![c] = [pc |-> "idle", op |-> op,
                                       arg |-> IF op = "Startup" THEN "" ELSE arg,
                                       size |-> 0, ch |-> 0,
                                       res |-> apiPanic(op), pre |-> {},
                                       old |-> ""]]
            /\ attribute' = attribute
    /\ UNCHANGED <<totalState, ctl, gen, logData, logCap, serviceStop, wr,
                   waiters, io, enq, boundPath, lastLife>>

\* WriteToFile, WriteToMulti without their check of s.fileDesc
CheckFileSkipped(c) ==
    /\ cl[c].pc = "checkFile"
    /\ ~io.panic
    /\ cl' = [cl EXCEPT ![c].pc = "sendData"]
    /\ UNCHANGED <<totalState, ctl, attribute, gen, logData, logCap, serviceStop,
                   wr, waiters, io, ncalls, enq, boundPath, lastLife>>

\* WriteToFile, WriteToMulti: if s.fileDesc == nil { panic(m001) }
CheckFile(c) ==
    /\ cl[c].pc = "checkFile"
    /\ ~io.panic
    /\ cl' = [cl EXCEPT ![c].pc = IF io.fileDesc = Nil THEN "idle" ELSE "sendData",
                        ![c].res = IF io.fileDesc = Nil THEN m001 ELSE ""]
    /\ UNCHANGED <<totalState, ctl, attribute, gen, logData, logCap, serviceStop,
                   wr, waiters, io, ncalls, enq, boundPath, lastLife>>

\* the channel a caller's send statement works on: s.logData as it was when
\* the statement was reached
sendChannel(c) == IF cl[c].ch = 0 THEN gen ELSE cl[c].ch

\* a send into a buffered channel goes on when the buffer has room
chanRoomAlways(g) == TRUE

chanRoom(g) == Len(logData[g]) < logCap[g]

\* WriteTo*: s.logData <- logMessage{target, msg}; the payload is the number
\* of the message in the order of the sends.  With the channel full the
\* caller blocks on it (ch).
SendData(c) ==
    /\ cl[c].pc = "sendData"
    /\ ~io.panic
    /\ IF chanRoom(sendChannel(c))
       THEN LET msg == [target |-> apiTarget(cl[c].op), data |-> Len(enq) + 1] IN
            /\ logData' = [logData EXCEPT ![sendChannel(c)] = Append(@, msg)]
            /\ enq' = Append(enq, [target |-> msg.target, path |-> boundPath,
                                     hd |-> io.fileDesc])
            /\ cl' = [cl EXCEPT ![c].pc = "idle", ![c].res = "ok"]
       ELSE /\ cl[c].ch = 0
            /\ cl' = [cl EXCEPT ![c].ch = gen]
            /\ UNCHANGED <<logData, enq>>
    /\ UNCHANGED <<totalState, ctl, attribute, gen, logCap, serviceStop, wr,
                   waiters, io, ncalls, boundPath, lastLife>>

\* control.service returns: <-c.execServiceActionResponse
returned(c) ==
    /\ cl' = [cl EXCEPT ![c].pc = "idle", ![c].res = "ok"]
    /\ boundPath' = IF cl[c].op \in {"InitLogFile", "ChangeLogName"} THEN cl[c].arg
                    ELSE IF cl[c].op = "Shutdown" THEN ""
                    ELSE boundPath
    /\ lastLife' = IF cl[c].op \in {"Startup", "Shutdown"} THEN cl[c].op ELSE lastLife

\* a waiter goroutine's c.execServiceActionResponse <- signal{} is received
RespondWaiter(c) ==
    /\ cl[c].pc = "awaitResp"
    /\ ~io.panic
    /\ waiters.respond > 0
    /\ waiters' = [waiters EXCEPT !.respond = @ - 1]
    /\ returned(c)
    /\ UNCHANGED <<totalState, ctl, attribute, gen, logData, logCap, serviceStop,
                   wr, io, ncalls, enq>>

\* the log service's c.execServiceActionResponse <- signal{} is received
RespondWriter(w, c) ==
    /\ cl[c].pc = "awaitResp"
    /\ WrAt(w, "ack")
    /\ wr' = [wr EXCEPT ![w] = backToSelect(w)]
    /\ returned(c)
    /\ UNCHANGED <<totalState, ctl, attribute, gen, logData, logCap, serviceStop,
                   waiters, io, ncalls, enq>>

\* ---------------------------------------------------------------- system
Init ==
    /\ totalState = 0
    /\ ctl = CtlIdle
    /\ attribute = [logbuffer |-> 0, logfilename |-> ""]
    /\ gen = 0
    /\ logData = [g \in Gens |-> <<>>]
    /\ logCap = [g \in Gens |-> 0]
    /\ serviceStop = [g \in Gens |-> 0]
    /\ wr = [w \in Gens |-> [pc |-> "none", lg |-> 0, data |-> "", half |-> 0]]
    /\ waiters = [startPoll |-> 0, stopPoll |-> 0, stopClose |-> 0, respond |-> 0]
    /\ io = [stdoutLogInstance |-> FALSE,
             fileWriter |-> [h |-> Nil, buf |-> <<>>, err |-> FALSE],
             fileDesc |-> Nil,
             fileLogInstance |-> FALSE,
             flusher |-> FALSE,
             tick |-> [n |-> 0, h |-> Nil],
             openErr |-> FALSE,
             handles |-> <<>>,
             files |-> [p \in Paths |-> <<>>],
             stdout |-> <<>>,
             panic |-> FALSE]
    /\ cl = [c \in Callers |-> [pc |-> "idle", op |-> "", arg |-> "", size |-> 0,
                                ch |-> 0,
                                res |-> "",
                                pre |-> {}, old |-> ""]]
    /\ ncalls = 0
    /\ enq = <<>>
    /\ boundPath = ""
    /\ lastLife = ""

\* the bufferSize values Startup is called with
BufferSizes == {1, StartupBufferSize}

Args(op) ==
    IF op \in {"InitLogFile", "ChangeLogName"} THEN Paths
    ELSE IF op = "Startup" THEN BufferSizes
    ELSE {""}

System ==
    \/ CtlSendStop
    \/ StartWaiter
    \/ StopWaiter
    \/ StopWaiterClose
    \/ TimerFlush
    \/ TimerFlushEnd
    \/ \E w \in Gens : WrSetRunning(w)
    \/ \E w \in Gens : WrRecvStop(w)
    \/ \E w \in Gens : WrRecvData(w)
    \/ \E w \in Gens : WrRecvConfig(w)
    \/ \E w \in Gens : WrFlush(w)
    \/ \E w \in Gens : WrMultiFile(w)
    \/ \E w \in Gens : WrSetStopped(w)

CallerStep(c, bound) ==
    \/ \E op \in Ops : \E arg \in Args(op) : Call(c, op, arg, bound)
    \/ CheckFile(c)
    \/ SendData(c)
    \/ Service(c)
    \/ RespondWaiter(c)
    \/ \E w \in Gens : RespondWriter(w, c)

\* any number of callers use the package concurrently
Next == System \/ \E c \in Callers : CallerStep(c, MaxCalls)

Spec == Init /\ [][Next]_vars

\* one caller uses the package, one call after the other
NextSeq == System \/ CallerStep(1, MaxCallsSeq)

SpecSeq == Init /\ [][NextSeq]_vars

\* every goroutine that can take a step is scheduled, and the caller goes on
\* with a call it has entered
Fairness ==
    /\ WF_vars(CtlSendStop)
    /\ WF_vars(StartWaiter)
    /\ WF_vars(StopWaiter)
    /\ WF_vars(StopWaiterClose)
    /\ WF_vars(TimerFlush)
    /\ WF_vars(TimerFlushEnd)
    /\ \A w \in Gens :
          /\ WF_vars(WrSetRunning(w))
          /\ WF_vars(WrRecvStop(w))
          /\ WF_vars(WrRecvData(w))
          /\ WF_vars(WrRecvConfig(w))
          /\ WF_vars(WrFlush(w))
          /\ WF_vars(WrMultiFile(w))
          /\ WF_vars(WrSetStopped(w))
          /\ WF_vars(RespondWriter(w, 1))
    /\ WF_vars(CheckFile(1))
    /\ WF_vars(SendData(1))
    /\ WF_vars(Service(1))
    /\ WF_vars(RespondWaiter(1))

\* one sequential caller under fair scheduling
FairSpecSeq == SpecSeq /\ Fairness

\* the functions used while the service runs
RunOps == {"Startup", "InitLogFile", "WriteToStdout", "WriteToMulti"}

\* callers start the service and write, and nobody shuts it down
NextRun ==
    \/ StartWaiter
    \/ TimerFlush
    \/ TimerFlushEnd
    \/ \E w \in Gens : WrSetRunning(w)
    \/ \E w \in Gens : WrRecvData(w)
    \/ \E w \in Gens : WrRecvConfig(w)
    \/ \E w \in Gens : WrMultiFile(w)
    \/ \E c \in Callers :
          \/ \E op \in RunOps : \E arg \in Args(op) : Call(c, op, arg, MaxCallsRun)
          \/ CheckFile(c)
          \/ SendData(c)
          \/ Service(c)
          \/ RespondWaiter(c)
          \/ \E w \in Gens : RespondWriter(w, c)

SpecRun == Init /\ [][NextRun]_vars

\* the functions used to fill the logData channel
FillOps == {"Startup", "WriteToStdout"}

\* callers start the service and write to stdout
NextFill ==
    \/ StartWaiter
    \/ \E w \in Gens : WrSetRunning(w)
    \/ \E w \in Gens : WrRecvData(w)
    \/ \E c \in Callers :
          \/ \E op \in FillOps : \E arg \in Args(op) : Call(c, op, arg, MaxCallsFill)
          \/ SendData(c)
          \/ Service(c)
          \/ RespondWaiter(c)

SpecFill == Init /\ [][NextFill]_vars

\* ------------------------------------------------------------ properties
Range(q) == {q[i] : i \in 1..Len(q)}

\* the data lines of a file, without the blank separator lines
DataLines(q) == SelectSeq(q, LAMBDA x : x # Blank)

Increasing(q) == \A i, j \in 1..Len(q) : i < j => q[i] < q[j]

InSomeFile(i) == \E p \in Paths : i \in Range(io.files[p])

\* message i has reached every target it was sent to
Written(i) ==
    /\ enq[i].target \in {stdout, multi} => i \in Range(io.stdout)
    /\ enq[i].target \in {file, multi} => InSomeFile(i)

Returns(c, op) == cl[c].pc = "awaitResp" /\ cl[c].op = op /\ cl'[c].pc = "idle"

WritersAlive == {w \in Gens : wr[w].pc \notin {"none", "exited"}}

\* C1: when a Shutdown call returns, every message enqueued before that
\* moment has been written to its target(s), in the order of the enqueues.
C1_ShutdownWritesAll ==
    [][\A c \in Callers :
          Returns(c, "Shutdown") =>
              /\ \A i \in 1..Len(enq') : Written(i)'
              /\ Increasing(io.stdout')
              /\ \A p \in Paths : Increasing(DataLines(io.files'[p]))]_vars

InLifecycleCall(c) == cl[c].pc # "idle" /\ cl[c].op \in {"Startup", "Shutdown"}

\* C2: for one sequential caller the lifecycle alternates: Startup returns
\* only after a Shutdown (or at first) and leaves the state Running, Shutdown
\* returns only after a Startup and leaves it Stopped, and between
\* lifecycle calls the state does not change.
C2_LifecycleAlternates ==
    [][/\ Returns(1, "Startup") => lastLife # "Startup" /\ totalState' = running
       /\ Returns(1, "Shutdown") => lastLife = "Startup" /\ totalState' = stopped
       /\ ~InLifecycleCall(1) /\ ~InLifecycleCall(1)' => totalState' = totalState]_vars

\* a second Startup has returned with the service running again
C2_Witness ==
    lastLife = "Startup" /\ gen = 2 /\ cl[1].pc = "idle" /\ totalState = running

\* C3: at most one log service goroutine is alive, and exactly one while the
\* state is Running.
C3_OneWriter ==
    /\ Cardinality(WritersAlive) <= 1
    /\ checkServiceState(totalState, running) => Cardinality(WritersAlive) = 1

OldFile(c) == cl[c].old

\* C4: when ChangeLogName(new) returns, the old file holds every file
\* message enqueued before the call while the old file was the log file,
\* and the new file holds none of them.
C4_SwitchSplitsFiles ==
    [][\A c \in Callers :
          Returns(c, "ChangeLogName") /\ OldFile(c) # "" /\ OldFile(c) # cl[c].arg =>
              \A i \in cl[c].pre :
                  enq[i].path = OldFile(c) =>
                      /\ i \in Range(io.files'[OldFile(c)])
                      /\ i \notin Range(io.files'[cl[c].arg])]_vars

\* an API call is entered by caller c
Calls(c) == cl[c].pc = "idle" /\ ncalls' = ncalls + 1 /\ cl'[c] # cl[c]

WrongPhase(op) ==
    IF op = "Startup" THEN checkServiceState(totalState, running)
    ELSE ~checkServiceState(totalState, running)

\* C5: an API call made in the wrong lifecycle phase fails with its error
\* at once and changes nothing but the caller's own result.
C5_WrongPhaseFails ==
    [][\A c \in Callers :
          Calls(c) /\ WrongPhase(cl'[c].op) =>
              /\ cl'[c].pc = "idle"
              /\ cl'[c].res = (IF cl'[c].op = "Startup" THEN m002
                               ELSE IF cl'[c].op = "Shutdown" THEN m003 ELSE m004)
              /\ UNCHANGED <<totalState, ctl, attribute, gen, logData, logCap,
                             serviceStop, wr, waiters, io, enq>>]_vars

\* a Startup was refused while running and a write was refused while stopped
C5_Witness ==
    /\ cl[1].op = "Startup" /\ cl[1].res = m002
    /\ cl[2].op = "WriteToFile" /\ cl[2].res = m004

\* a goroutine of the log service that can still receive from the channels
\* of generation g
Receiver(w, g) ==
    \/ /\ wr[w].pc = "select" /\ wr[w].half = 0
       /\ (wr[w].lg = g \/ (logData[wr[w].lg] # <<>> /\ g = gen))
    \/ wr[w].pc = "select" /\ wr[w].half # 0 /\ g = gen
    \/ wr[w].pc \in {"setRunning", "ack", "flushNew"} /\ g = gen

\* C6: no message sits in a logData channel, and the control is not blocked
\* on a serviceConfig send, when no log service goroutine will receive it.
C6_NoSendWithoutReceiver ==
    /\ \A g \in Gens :
          logData[g] # <<>> =>
              \E w \in Gens : Receiver(w, g) \/ (wr[w].pc = "flushStop" /\ g = gen)
    /\ ctl.pc = "sendConfig" => \E w \in Gens : Receiver(w, gen)

\* C7: when Startup returns the state is Running, a log service goroutine is
\* in its loop on the current channels and a write passes its state check.
C7_StartupReturnsRunning ==
    [][Returns(1, "Startup") =>
          /\ checkServiceState(totalState', running)
          /\ \E w \in Gens : wr'[w].pc = "select" /\ wr'[w].lg = gen'
          /\ apiGuard("WriteToStdout", totalState')
          /\ logCap'[gen'] > 0]_vars

\* Startup has returned to the caller
C7_Witness == cl[1].op = "Startup" /\ cl[1].res = "ok" /\ cl[1].pc = "idle"

OpenHandles == {h \in 1..Len(io.handles) : io.handles[h].open}

\* C8: when Shutdown returns the state is exactly Stopped, no log service
\* goroutine is alive and no file handle is open.
C8_ShutdownReturnsStopped ==
    [][Returns(1, "Shutdown") =>
          /\ ~checkServiceState(totalState', running)
          /\ totalState' = stopped
          /\ WritersAlive' = {}
          /\ OpenHandles' = {}]_vars

\* C9: at most one file handle is open.
C9_OneOpenHandle == Cardinality(OpenHandles) <= 1

\* C10: a file message enqueued after InitLogFile(p) or ChangeLogName(p)
\* returned reaches no file but p.
C10_WrittenToBoundFile ==
    \A i \in 1..Len(enq) : \A p \in Paths :
        enq[i].path # "" /\ i \in Range(io.files[p]) => p = enq[i].path

\* the messages still in a logData channel
Queued == UNION {{logData[g][k].data : k \in 1..Len(logData[g])} : g \in Gens}

Blanks(q) == Len(SelectSeq(q, LAMBDA x : x = Blank))

\* file messages sent while handle h was the log file and taken by the log
\* service since
TakenFor(h) ==
    {i \in 1..Len(enq) : enq[i].target # stdout /\ enq[i].hd = h /\ i \notin Queued}

\* C11: the lines written through a file handle start with the one blank
\* separator line, and a handle that is closed after file messages were
\* sent for it and taken by the log service has got its separator line.
C11_OneBlankPerOpen ==
    \A h \in 1..Len(io.handles) :
        /\ io.handles[h].out # <<>> =>
               io.handles[h].out[1] = Blank /\ Blanks(io.handles[h].out) = 1
        /\ ~io.handles[h].open /\ TakenFor(h) # {} => Blanks(io.handles[h].out) = 1

\* C12: as long as no file message was sent and every open succeeded, closing
\* a log file (by ChangeLogName or by Shutdown) raises no error and every log
\* file is empty.
C12_EmptyCloseSucceeds ==
    fileIds(enq) = {} /\ ~io.openErr => ~io.panic /\ \A p \in Paths : io.files[p] = <<>>

\* the effect the action of an API function must have had, at the latest,
\* when its c.service call returns
Effected(c) ==
    IF cl[c].op = "Startup"
    THEN \E w \in Gens : wr[w].pc \notin {"none", "setRunning"}
    ELSE IF cl[c].op = "Shutdown"
    THEN \E w \in Gens : wr[w].pc = "exited"
    ELSE \E h \in 1..Len(io.handles) : io.handles[h].path = cl[c].arg

\* C13: c.service returns to a caller only after the caller's action took
\* effect: after a start a log service goroutine has registered Running,
\* after a stop one has ended, after initlog/newlog the requested file has
\* been opened.
C13_ServiceReturnsAfterEffect ==
    [][\A c \in Callers : cl[c].pc = "awaitResp" /\ cl'[c].pc = "idle" => Effected(c)']_vars

\* C14: the start action allocates the logData channel with the capacity
\* the caller passed to Startup.
C14_ChannelCapacity ==
    [][\A c \in Callers :
          cl[c].pc = "sendAction" /\ cl[c].op = "Startup" /\ cl'[c].pc = "awaitResp" =>
              logCap'[gen'] = cl[c].size]_vars

\* C15: for one sequential caller, while the service runs and no log file
\* has been initialized since the start of the program or the last Shutdown,
\* WriteToFile and WriteToMulti fail with m001 and enqueue nothing, and
\* WriteToStdout goes on to its send without looking at the file.
C15_FileWritesNeedFile ==
    [][/\ cl[1].pc = "checkFile" /\ cl'[1].pc # "checkFile" /\ boundPath = "" =>
             /\ cl'[1].pc = "idle" /\ cl'[1].res = m001
             /\ UNCHANGED <<logData, enq>>
       /\ Calls(1) /\ cl'[1].op = "WriteToStdout" /\ ~WrongPhase("WriteToStdout") =>
             cl'[1].pc = "sendData"
       /\ cl[1].pc = "sendData" /\ cl'[1].pc = "idle" => Len(enq') = Len(enq) + 1]_vars

\* a file write was refused after a Shutdown had closed the log file that
\* an earlier message was sent to
C15_Witness ==
    /\ cl[1].op = "WriteToFile" /\ cl[1].res = m001
    /\ gen = 2 /\ Len(io.handles) > 0 /\ Len(enq) > 0

Last(q) == q[Len(q)]

\* C16: a multi message is printed to stdout, then the same payload is
\* printed to the file logger (the last line of its buffer, unless the writer
\* is in error), and between the two prints nothing is printed to stdout or
\* to the file logger.
C16_MultiStdoutThenFile ==
    [][\A w \in Gens :
          /\ wr[w].half = 0 /\ wr'[w].half # 0 =>
                 /\ io'.stdout = Append(io.stdout, wr'[w].half)
                 /\ io'.fileWriter = io.fileWriter
          /\ wr[w].half # 0 /\ wr'[w].half = 0 =>
                 /\ io'.stdout = io.stdout
                 /\ ~io'.fileWriter.err /\ ~io'.panic =>
                        io'.fileWriter.buf # <<>> /\ Last(io'.fileWriter.buf) = wr[w].half
                 /\ Last(io.stdout) = wr[w].half
          /\ wr[w].half # 0 /\ wr'[w].half # 0 =>
                 /\ io'.stdout = io.stdout
                 /\ Range(io'.fileWriter.buf) \subseteq Range(io.fileWriter.buf)]_vars

\* a multi message has been printed to stdout and to the file logger
C16_Witness ==
    \E i \in 1..Len(enq) :
        /\ enq[i].target = multi
        /\ i \in Range(io.stdout) /\ i \in Range(io.fileWriter.buf)
        /\ \A w \in Gens : wr[w].half = 0

\* C17: a logData channel never holds more than its capacity, a caller's
\* send returns only when the channel had room, and every message sent is
\* either still in a channel or has been printed, once.
C17_FullChannelBlocks ==
    /\ \A g \in Gens : Len(logData[g]) <= logCap[g]
    /\ \A i \in 1..Len(enq) :
          enq[i].target = stdout =>
              Cardinality({g \in Gens : \E k \in 1..Len(logData[g]) : logData[g][k].data = i})
              + Cardinality({k \in 1..Len(io.stdout) : io.stdout[k] = i}) = 1
    /\ \A g \in Gens : Increasing([k \in 1..Len(logData[g]) |-> logData[g][k].data])

\* a caller that found the channel full has sent its message after the log
\* service took one out
C17_Witness ==
    \E c \in Callers :
        /\ cl[c].pc = "idle" /\ cl[c].res = "ok" /\ cl[c].ch # 0
        /\ Len(logData[cl[c].ch]) = logCap[cl[c].ch]

Count(q, x) == Cardinality({k \in 1..Len(q) : q[k] = x})

\* C18: after one Startup, one InitLogFile and file writes that returned, the
\* log file holds every message exactly once when Shutdown has returned.
C18_ExactlyOnce ==
    /\ lastLife = "Shutdown" /\ cl[1].pc = "idle" /\ ~io.panic
    /\ gen = 1 /\ Len(io.handles) = 1
    /\ \A i \in 1..Len(enq) : enq[i].target = file
    => \A i \in 1..Len(enq) : Count(io.files[io.handles[1].path], i) = 1

\* the output handles of the log service: descriptor, writer, loggers and
\* which files are open
WriterHandles ==
    <<io.fileDesc, io.fileWriter, io.fileLogInstance, io.stdoutLogInstance,
      [h \in 1..Len(io.handles) |-> io.handles[h].open]>>

\* C19: the output handles are changed by steps of a log service goroutine
\* only.
C19_WriterOwnsHandles ==
    [][WriterHandles' # WriterHandles =>
          \E w \in Gens :
              WrRecvData(w) \/ WrRecvConfig(w) \/ WrFlush(w) \/ WrMultiFile(w)]_vars

\* the control is blocked on its serviceConfig send, a log service goroutine
\* is blocked on its setState send to the control, and no goroutine is left
\* that could receive the config message
Deadlock ==
    /\ ctl.pc = "sendConfig"
    /\ \E w \in Gens : wr[w].pc \in {"setRunning", "setStopped"}
    /\ \A w \in Gens : wr[w].pc \in {"none", "exited", "setRunning", "setStopped"}

C21_CallsReturn == (cl[1].pc # "idle") ~> (cl[1].pc = "idle" \/ io.openErr)

\* the newlog case of log service goroutine w ends: changeLogFileName has
\* returned without a panic
SwitchDone(w) == wr[w].pc = "flushNew" /\ wr'[w].pc = "ack" /\ ~io'.panic

\* C22: when the newlog case ends, the channel had been drained, every file
\* message sent for the current file is written to it, its handle is closed,
\* the cached file logger is discarded and the new path is open with nothing
\* written to it; and nothing is ever written through a closed handle.
C22_SwitchOrder ==
    [][/\ \A w \in Gens :
             SwitchDone(w) /\ io.fileDesc # Nil =>
                 /\ logData[gen] = <<>>
                 /\ TakenFor(io.fileDesc) \subseteq Range(io'.handles[io.fileDesc].out)
                 /\ ~io'.handles[io.fileDesc].open
                 /\ ~io'.fileLogInstance
                 /\ Len(io'.handles) = Len(io.handles) + 1
                 /\ io'.fileDesc = Len(io'.handles)
                 /\ io'.handles[io'.fileDesc] =
                        [path |-> wr[w].data, open |-> TRUE, out |-> <<>>]
       /\ \A h \in 1..Len(io.handles) :
             ~io.handles[h].open => io'.handles[h].out = io.handles[h].out]_vars

\* C23: a step of a log service goroutine that changes the service state
\* sets it to Stopped and is the goroutine's last, with its channel drained.
C23_WriterSetsStoppedOnly ==
    [][\A w \in Gens :
          wr[w].pc # "none" /\ wr'[w] # wr[w] /\ totalState' # totalState =>
              /\ totalState' = stopped
              /\ wr'[w].pc = "exited"
              /\ logData[wr[w].lg] = <<>>]_vars

\* a start action is taken by the control
StartTaken == gen' = gen + 1

\* C24: the service state changes in three ways only: a setState(stopped)
\* leaves exactly Stopped, a setState(running) sets the Running bit and keeps
\* the Stopped bit, and a start action clears a mask that is exactly Stopped
\* and leaves every other mask alone.
C24_MaskUpdates ==
    [][/\ \A w \in Gens :
             /\ wr[w].pc = "setStopped" /\ wr'[w].pc = "exited" => totalState' = stopped
             /\ wr[w].pc = "setRunning" /\ wr'[w].pc = "select" =>
                    /\ Bit(totalState', running) = 1
                    /\ Bit(totalState', stopped) = Bit(totalState, stopped)
       /\ StartTaken => totalState' = (IF totalState = stopped THEN 0 ELSE totalState)
       /\ totalState' # totalState =>
             \/ StartTaken
             \/ \E w \in Gens : wr[w].pc \in {"setStopped", "setRunning"} /\ wr'[w].pc # wr[w].pc]_vars

\* Running was set on top of Stopped, after every kind of state change
C24_Witness == totalState = 3 /\ gen = 2 /\ \E w \in Gens : wr[w].pc = "exited"

\* C27: the Stopped and the Running bit of the service state are never both
\* set.
C27_NotStoppedAndRunning ==
    ~(checkServiceState(totalState, stopped) /\ checkServiceState(totalState, running))

\* log service goroutine w has taken a config message and not yet had its
\* acknowledgment received
HoldsRequest(w) == wr[w].pc \in {"flushNew", "ack"}

\* C25: for one sequential caller, a config message taken by the log service
\* is the caller's pending request, one goroutine holds it, it goes on to
\* its acknowledgment unless the open fails, and the acknowledgment is
\* offered only with the requested path open as the log file.
C25_ConfigAckedOnce ==
    /\ Cardinality({w \in Gens : HoldsRequest(w)}) + (IF ctl.pc = "sendConfig" THEN 1 ELSE 0)
           <= 1
    /\ \A w \in Gens :
          HoldsRequest(w) =>
              /\ cl[1].pc = "awaitResp" /\ cl[1].op \in {"InitLogFile", "ChangeLogName"}
              /\ ~io.panic \/ io.openErr
    /\ \A w \in Gens :
          wr[w].pc = "ack" /\ ~io.panic =>
              /\ io.fileDesc # Nil
              /\ io.handles[io.fileDesc] = [path |-> cl[1].arg, open |-> TRUE, out |-> <<>>]

\* C26: when the open of a log file fails, the caller's call has not
\* returned and never does, and nothing is written or changed any more.
C26_OpenFailureIsFatal ==
    [][/\ io'.openErr /\ ~io.openErr => cl' = cl /\ cl[1].pc = "awaitResp"
       /\ io.openErr => UNCHANGED vars]_vars

\* the open of ChangeLogName failed after a message had been written
C26_Witness ==
    /\ io.openErr /\ io.panic
    /\ cl[1].op = "ChangeLogName" /\ cl[1].pc = "awaitResp"
    /\ \E p \in Paths : DataLines(io.files[p]) # <<>>

\* log service goroutine w takes a file message from a channel and prints it
\* to the file logger
TakesFileMessage(w) ==
    /\ wr[w].pc \in {"select", "flushStop", "flushNew"}
    /\ \E g \in Gens :
          /\ logData[g] # <<>> /\ logData'[g] = Tail(logData[g])
          /\ Head(logData[g]).target = file

\* C28: for one sequential caller the log service prints to the file logger
\* only while s.fileDesc is an open file, so fileLog.instance never panics
\* with m001.
C28_FileOpenAtDequeue ==
    [][\A w \in Gens :
          TakesFileMessage(w) \/ (wr[w].half # 0 /\ wr'[w].half = 0) =>
              /\ io.fileDesc # Nil
              /\ io.handles[io.fileDesc].open
              /\ io'.panic = io.panic]_vars

\* a multi message sent after a switch of the log file has been printed
C28_Witness ==
    /\ Len(io.handles) = 2 /\ ~io.panic
    /\ \E i \in 1..Len(enq) :
          enq[i].target = multi /\ enq[i].hd = 2 /\ i \in Range(io.fileWriter.buf)

\* C29: checkState(stopped) is true only when a log service goroutine has
\* ended; before the first start action, and from a start action until its
\* log service goroutine registers Running, checkState(stopped) and
\* checkState(running) are both false.
C29_StateBetweenStartAndRunning ==
    /\ checkServiceState(totalState, stopped) => \E w \in Gens : wr[w].pc = "exited"
    /\ gen = 0 \/ wr[IF gen = 0 THEN 1 ELSE gen].pc = "setRunning" =>
           /\ ~checkServiceState(totalState, stopped)
           /\ ~checkServiceState(totalState, running)

====
